---- MODULE Spec2Model ----
(***************************************************************************)
(* Equipment dashboard: the file-drop pipeline of the dashboard component  *)
(* (dashboard.tsx, and its variant with a loading flag), the reducer       *)
(* processData, and the forecaster and risk scorer of predict.tsx.         *)
(***************************************************************************)
EXTENDS Integers, Sequences, FiniteSets, TLC

VARIABLES
  data,               \* useState<EquipmentData[]>([])
  latestReadings,     \* useState<LatestReadings>({}): equipment_id -> row
  maintenanceAlerts,  \* useState<EquipmentData[]>([])
  isDragging,         \* useState<boolean>(false)
  error,              \* useState<string | null>(null); null is "null"
  loading,            \* useState<boolean>(false) (variant with a loading flag)
  reads,              \* files handed to reader.readAsText, not yet delivered
  timers,             \* parse results waiting for their setTimeout callback
  files,              \* the drops the user is still going to make
  hasLoading,         \* TRUE: the variant with the loading flag
  tzOffset,           \* the host's local time zone, ms east of UTC
  probabilities,      \* rendered: equipment_id -> probability and high-risk alert
  forecasts,          \* rendered: equipment_id -> predictFutureValues
  chartData           \* rendered: prepareChartData(data)

vars == <<data, latestReadings, maintenanceAlerts, isDragging, error, loading,
          reads, timers, files, hasLoading, tzOffset, probabilities, forecasts,
          chartData>>

\* the component's state and its environment, without what is rendered
state == <<data, latestReadings, maintenanceAlerts, isDragging, error, loading,
           reads, timers, files, hasLoading, tzOffset>>

-----------------------------------------------------------------------------
(* Bounds of the model *)

MaxRows == 3          \* rows of a dropped file
MaxDrops == 3         \* drops in the specification of the drop pipeline
MaxDays == 400        \* largest days_until_replacement of the risk grid
MaxOverdue == 365    \* largest number of days a part is overdue in the risk grid
HealthMargin == 5     \* how far part_health_percentage leaves [0,100] in the grid

-----------------------------------------------------------------------------
(* Numbers.  A JavaScript number that arises from integers by + - * / is   *)
(* kept as an exact fraction [n, d] in lowest terms with d > 0.            *)

RECURSIVE GCD(_, _)
GCD(a, b) == IF b = 0 THEN a ELSE GCD(b, a % b)

Abs(x) == IF x < 0 THEN -x ELSE x

Rat(n, d) ==
  LET s == IF d < 0 THEN -1 ELSE 1
      g == GCD(Abs(n), Abs(d))
  IN [n |-> (s * n) \div g, d |-> (s * d) \div g]

Num(i) == [n |-> i, d |-> 1]
RatAdd(x, y) == Rat(x.n * y.d + y.n * x.d, x.d * y.d)
RatSub(x, y) == Rat(x.n * y.d - y.n * x.d, x.d * y.d)
RatMul(x, y) == Rat(x.n * y.n, x.d * y.d)
RatDiv(x, y) == Rat(x.n * y.d, x.d * y.n)
RatLess(x, y) == x.n * y.d < y.n * x.d
MathMaxUnclamped(x, y) == y
MathMaxCapped(x, y) ==
  IF RatLess(Num(1), y) THEN Num(1) ELSE IF RatLess(x, y) THEN y ELSE x
\* Math.max(a, b)
MathMax(x, y) == IF RatLess(x, y) THEN y ELSE x
\* Math.round(x): the nearest integer, a half rounding up
MathRound(x) == (2 * x.n + x.d) \div (2 * x.d)

-----------------------------------------------------------------------------
(* Timestamps.  A timestamp string is empty, text that is no date, or a    *)
(* date-time "YYYY-MM-DD HH:MM:SS[.mmm]" without a zone; wall is its       *)
(* wall-clock reading in ms.  A cell that is all digits reaches the rows   *)
(* as a number (dynamicTyping): kind "number", wall its value.             *)

HourMs == 60 * 60 * 1000

EmptyTs == [kind |-> "empty", wall |-> 0]
TextTs == [kind |-> "text", wall |-> 0]
DateTime(ms) == [kind |-> "datetime", wall |-> ms]
Hour(h) == DateTime(h * HourMs)
NumberTs(n) == [kind |-> "number", wall |-> n]

\* new Date(string): a zoneless date-time is read as local time; anything
\* else is an Invalid Date, whose time value is NaN.
NewDateZero(ts, tz) ==
  IF ts.kind = "datetime" THEN [nan |-> FALSE, time |-> ts.wall - tz]
  ELSE [nan |-> FALSE, time |-> 0]

\* new Date(number) is the instant that many ms after the epoch.
NewDate(ts, tz) ==
  IF ts.kind = "datetime" THEN [nan |-> FALSE, time |-> ts.wall - tz]
  ELSE IF ts.kind = "number" THEN [nan |-> FALSE, time |-> ts.wall]
  ELSE [nan |-> TRUE, time |-> 0]

\* a > b on two Dates: a comparison with NaN is false
DateGreaterOrEqual(a, b) == ~a.nan /\ ~b.nan /\ a.time >= b.time
DateGreater(a, b) == ~a.nan /\ ~b.nan /\ a.time > b.time

\* date.toISOString().slice(0, 19).replace('T', ' '): the UTC reading of the
\* instant, cut to whole seconds.
ToIsoSeconds(date) == DateTime(date.time - (date.time % 1000))

-----------------------------------------------------------------------------
(* Rows.  A parsed row is an object; line, its place in the parse result,  *)
(* stands for the object's identity.  The fields no computation reads      *)
(* (operating_hours, pressure, part_id, ...) are left out.                 *)

MkRow(line, id, ts, maint, metrics) ==
  [line |-> line, equipment_id |-> id, timestamp |-> ts,
   maintenance_required |-> maint,
   temperature |-> metrics.temperature,
   vibration_level |-> metrics.vibration_level,
   part_health_percentage |-> metrics.part_health_percentage,
   days_until_replacement |-> metrics.days_until_replacement]

\* !row.equipment_id || !row.timestamp
IsRejected(row) ==
  \/ row.equipment_id = ""
  \/ row.timestamp.kind = "empty"
  \/ (row.timestamp.kind = "number" /\ row.timestamp.wall = 0)

Put(f, k, v) == [x \in (DOMAIN f) \cup {k} |-> IF x = k THEN v ELSE f[x]]

NoLatest == [id \in {} |-> 0]

-----------------------------------------------------------------------------
(* processData: the body of parsedData.forEach, then the whole pass        *)

ProcessRowAlertFirst(acc, row, tz) ==
  LET alerts == IF row.maintenance_required = "Yes"
                THEN Append(acc.alerts, row) ELSE acc.alerts
      id == row.equipment_id
      replace == \/ id \notin DOMAIN acc.latest
                 \/ DateGreater(NewDate(row.timestamp, tz),
                                NewDate(acc.latest[id].timestamp, tz))
  IN IF IsRejected(row) THEN [latest |-> acc.latest, alerts |-> alerts]
     ELSE [latest |-> IF replace THEN Put(acc.latest, id, row) ELSE acc.latest,
           alerts |-> alerts]

ProcessRow(acc, row, tz) ==
  IF IsRejected(row) THEN acc
  ELSE LET id == row.equipment_id
           replace == \/ id \notin DOMAIN acc.latest
                      \/ DateGreater(NewDate(row.timestamp, tz),
                                     NewDate(acc.latest[id].timestamp, tz))
       IN [latest |-> IF replace THEN Put(acc.latest, id, row) ELSE acc.latest,
           alerts |-> IF row.maintenance_required = "Yes"
                      THEN Append(acc.alerts, row) ELSE acc.alerts]

RECURSIVE ForEachRowAbort(_, _, _, _)
ForEachRowAbort(parsedData, i, acc, tz) ==
  IF i > Len(parsedData) \/ IsRejected(parsedData[i]) THEN acc
  ELSE ForEachRowAbort(parsedData, i + 1, ProcessRow(acc, parsedData[i], tz), tz)

RECURSIVE ForEachRow(_, _, _, _)
ForEachRow(parsedData, i, acc, tz) ==
  IF i > Len(parsedData) THEN acc
  ELSE ForEachRow(parsedData, i + 1, ProcessRow(acc, parsedData[i], tz), tz)

\* the values processData hands to setLatestReadings and setMaintenanceAlerts
ProcessData(parsedData, tz) ==
  ForEachRow(parsedData, 1, [latest |-> NoLatest, alerts |-> <<>>], tz)

-----------------------------------------------------------------------------
(* predict.tsx                                                             *)

Horizon == 6

\* data.filter((d) => d.equipment_id === equipment_id)
EquipmentData(d, equipment_id) ==
  SelectSeq(d, LAMBDA r : r.equipment_id = equipment_id)

RECURSIVE FutureLoop(_, _, _, _)
FutureLoop(currentDate, i, hours, timestamps) ==
  IF i > hours THEN timestamps
  ELSE LET next == [nan |-> FALSE, time |-> currentDate.time + HourMs]
       IN FutureLoop(next, i + 1, hours, Append(timestamps, ToIsoSeconds(next)))

\* toISOString of an Invalid Date throws a RangeError in the first turn
GenerateFutureTimestamps(lastTimestamp, hours, tz) ==
  LET currentDate == NewDate(lastTimestamp, tz)
  IN IF currentDate.nan /\ hours >= 1
     THEN [threw |-> "RangeError", timestamps |-> <<>>]
     ELSE [threw |-> "none",
           timestamps |-> FutureLoop(currentDate, 1, hours, <<>>)]

Last(s) == s[Len(s)]

ForecastPoint(equipment_id, timestamp, lastTemp, tempTrend, lastVib, vibTrend, index) ==
  [timestamp |-> timestamp,
   predictedTemp |-> RatAdd(Num(lastTemp), RatMul(tempTrend, Num(index + 1))),
   predictedVib |-> RatAdd(Num(lastVib), RatMul(vibTrend, Num(index + 1))),
   upperBoundTemp |->
     RatAdd(RatAdd(Num(lastTemp), RatMul(tempTrend, Num(index + 1))), Num(2)),
   lowerBoundTemp |->
     RatSub(RatAdd(Num(lastTemp), RatMul(tempTrend, Num(index + 1))), Num(2)),
   equipment_id |-> equipment_id]

TrendFromOrigin(values) == RatDiv(Num(Last(values)), Num(Len(values)))

TrendPerInterval(values) ==
  IF Len(values) = 1 THEN Num(0)
  ELSE RatDiv(Num(Last(values) - values[1]), Num(Len(values) - 1))

\* (temps[temps.length - 1] - temps[0]) / temps.length
Trend(values) == RatDiv(Num(Last(values) - values[1]), Num(Len(values)))

\* equipmentData[equipmentData.length - 1].timestamp of an empty series is a
\* property read on undefined: a TypeError
PredictFutureValues(d, equipment_id, tz) ==
  LET equipmentData == EquipmentData(d, equipment_id)
      n == Len(equipmentData)
  IN IF n = 0 THEN [threw |-> "TypeError", points |-> <<>>]
     ELSE
       LET temps == [i \in 1..n |-> equipmentData[i].temperature]
           vibs == [i \in 1..n |-> equipmentData[i].vibration_level]
           tempTrend == Trend(temps)
           vibTrend == Trend(vibs)
           future == GenerateFutureTimestamps(Last(equipmentData).timestamp,
                                              Horizon, tz)
       IN [threw |-> future.threw,
           points |-> [k \in 1..Len(future.timestamps) |->
                         ForecastPoint(equipment_id, future.timestamps[k],
                                       Last(temps), tempTrend,
                                       Last(vibs), vibTrend, k - 1)]]

\* Math.round((healthFactor * 0.6 + timeFactor * 0.4) * 100)
Score(health, daysUntilReplacement) ==
  LET healthFactor == RatDiv(Num(100 - health), Num(100))
      timeFactor == MathMax(Num(0), RatDiv(Num(365 - daysUntilReplacement), Num(365)))
  IN MathRound(RatMul(RatAdd(RatMul(healthFactor, Rat(6, 10)),
                             RatMul(timeFactor, Rat(4, 10))),
                      Num(100)))

CalculateMaintenanceProbability(d, equipment_id) ==
  LET equipmentData == EquipmentData(d, equipment_id)
  IN IF Len(equipmentData) = 0 THEN 0
     ELSE LET latestData == Last(equipmentData)
          IN Score(latestData.part_health_percentage,
                   latestData.days_until_replacement)

UniqueEquipmentsKnown(d) == {"EQ1", "EQ2"}

\* Array.from(new Set(data.map((d) => d.equipment_id)))
UniqueEquipments(d) == {d[i].equipment_id : i \in DOMAIN d}

HighRiskFrom70(probability) == probability >= 70
\* probability > 70
HighRisk(probability) == probability > 70

\* The dashboard renders <PredictiveAnalytics data={data} /> unless it shows
\* the loading view or the empty drop view.
AnalyticsShown(d, l) == ~l /\ Len(d) > 0

\* a card per equipment id: the probability, and the high-risk alert
RenderProbabilities(d, l) ==
  [id \in (IF AnalyticsShown(d, l) THEN UniqueEquipments(d) ELSE {}) |->
     [probability |-> CalculateMaintenanceProbability(d, id),
      highRisk |-> HighRisk(CalculateMaintenanceProbability(d, id))]]

RenderForecasts(d, l, tz) ==
  [id \in (IF AnalyticsShown(d, l) THEN UniqueEquipments(d) ELSE {}) |->
     PredictFutureValues(d, id, tz)]

-----------------------------------------------------------------------------
(* prepareChartData                                                        *)

\* the distinct timestamps of d[i..], those in seen left out, in the order of
\* their first occurrence: the order in which _.groupBy creates its keys
RECURSIVE GroupKeys(_, _, _)
GroupKeys(d, i, seen) ==
  IF i > Len(d) THEN <<>>
  ELSE IF d[i].timestamp \in seen THEN GroupKeys(d, i + 1, seen)
  ELSE <<d[i].timestamp>> \o GroupKeys(d, i + 1, seen \cup {d[i].timestamp})

\* a key that is the decimal form of an integer in 0..2^32-2 is an integer
\* index of the object (every wall of the model is below 2^32-1)
IsIndexKey(ts) == ts.kind = "number" /\ ts.wall >= 0

RECURSIVE Ascending(_)
Ascending(S) ==
  IF S = {} THEN <<>>
  ELSE LET m == CHOOSE x \in S : \A y \in S : x.wall <= y.wall
       IN <<m>> \o Ascending(S \ {m})

\* Object.entries(groupedByTimestamp): the integer indices in ascending
\* order, then the other keys in the order of their creation
Entries(d) ==
  LET keys == GroupKeys(d, 1, {})
  IN Ascending({keys[k] : k \in {j \in DOMAIN keys : IsIndexKey(keys[j])}})
       \o SelectSeq(keys, LAMBDA t : ~IsIndexKey(t))

\* the point of one timestamp: readings.forEach assigns temp_<id> and
\* vib_<id>, a later reading of the same id overwriting an earlier one
ChartPoint(d, timestamp) ==
  LET readings == SelectSeq(d, LAMBDA r : r.timestamp = timestamp)
      ids == {readings[k].equipment_id : k \in DOMAIN readings}
  IN [timestamp |-> timestamp,
      temp |-> [id \in ids |-> Last(EquipmentData(readings, id)).temperature],
      vib |-> [id \in ids |-> Last(EquipmentData(readings, id)).vibration_level]]

PrepareChartData(d) ==
  LET entries == Entries(d)
  IN [k \in DOMAIN entries |-> ChartPoint(d, entries[k])]

-----------------------------------------------------------------------------
(* The files a user may drop.  kind: "none" (the drop carries no file),    *)
(* "notcsv" (type is not text/csv), "unreadable" (the reader fires         *)
(* onerror), "empty" (the read result is empty), "malformed" (the parser   *)
(* reports errors; rows are the rows it returns beside them), "csv" (the    *)
(* parser returns rows without errors).                                    *)

File(kind, rows) == [kind |-> kind, rows |-> rows]

FailingFiles ==
  {File(k, <<>>) : k \in {"none", "notcsv", "unreadable", "empty", "malformed"}}

DefaultMetrics ==
  [temperature |-> 70, vibration_level |-> 5,
   part_health_percentage |-> 40, days_until_replacement |-> 30]

\* the parse result whose rows hold the cells c[1], ..., c[n]
Rows(c) ==
  [i \in DOMAIN c |-> MkRow(i, c[i].id, c[i].ts, c[i].maint, c[i].metrics)]

\* the user is going to drop one file: one that fails, or a csv file of up to
\* max rows whose cells are drawn from cells
OneDrop(cells, max) ==
  \/ \E f \in FailingFiles : files = <<f>>
  \/ \E n \in 0..max : \E c \in [1..n -> cells] : files = <<File("csv", Rows(c))>>

TimeZones == {-HourMs, 0, HourMs}

-----------------------------------------------------------------------------
(* State after construction; the drops to come and the host's time zone    *)
(* are the environment's choice.                                           *)

InitState(variants, zones) ==
  /\ data = <<>>
  /\ latestReadings = NoLatest
  /\ maintenanceAlerts = <<>>
  /\ isDragging = FALSE
  /\ error = "null"
  /\ loading = FALSE
  /\ reads = <<>>
  /\ timers = <<>>
  /\ hasLoading \in variants
  /\ tzOffset \in zones
  /\ probabilities = RenderProbabilities(<<>>, FALSE)
  /\ forecasts = RenderForecasts(<<>>, FALSE, 0)
  /\ chartData = PrepareChartData(<<>>)

-----------------------------------------------------------------------------
(* Handlers                                                                *)

Remove(s, i) == [k \in 1..(Len(s) - 1) |-> IF k < i THEN s[k] ELSE s[k + 1]]

\* the re-render that follows the state updates of a handler
Render ==
  /\ probabilities' = RenderProbabilities(data', loading')
  /\ forecasts' = RenderForecasts(data', loading', tzOffset)
  /\ chartData' = PrepareChartData(data')

\* the loading view renders no drop target
DropTargetAlways == TRUE

DropTargetShown == ~(hasLoading /\ loading)

HandleDragOver ==
  /\ DropTargetShown
  /\ ~isDragging
  /\ isDragging' = TRUE
  /\ UNCHANGED <<data, latestReadings, maintenanceAlerts, error, loading, reads,
                 timers, files, hasLoading, tzOffset, probabilities, forecasts,
                 chartData>>

HandleDragLeave ==
  /\ DropTargetShown
  /\ isDragging
  /\ isDragging' = FALSE
  /\ UNCHANGED <<data, latestReadings, maintenanceAlerts, error, loading, reads,
                 timers, files, hasLoading, tzOffset, probabilities, forecasts,
                 chartData>>

DropRejectedNoFile(file) == file.kind = "none"

\* !file, or file.type !== 'text/csv': handleDrop returns before the reader
DropRejected(file) == file.kind \in {"none", "notcsv"}

HandleDrop ==
  /\ DropTargetShown
  /\ files # <<>>
  /\ LET file == Head(files)
     IN /\ files' = Tail(files)
        /\ isDragging' = FALSE
        /\ error' = CASE file.kind = "none" -> "No file provided"
                      [] file.kind = "notcsv" -> "Please upload a CSV file"
                      [] OTHER -> "null"
        /\ IF DropRejected(file)
           THEN UNCHANGED <<loading, reads>>
           ELSE /\ loading' = hasLoading
                /\ reads' = Append(reads, file)
  /\ UNCHANGED <<data, latestReadings, maintenanceAlerts, timers, hasLoading, tzOffset>>
  /\ Render

ProcessDataEffectKeepsData(parsedData) ==
  LET r == ProcessData(parsedData, tzOffset)
  IN /\ latestReadings' = r.latest
     /\ maintenanceAlerts' = r.alerts
     /\ data' = data
     /\ error' = "null"
     /\ loading' = FALSE

ProcessDataEffectKeepsLoading(parsedData) ==
  LET r == ProcessData(parsedData, tzOffset)
  IN /\ latestReadings' = r.latest
     /\ maintenanceAlerts' = r.alerts
     /\ data' = parsedData
     /\ error' = "null"
     /\ loading' = loading

\* setLatestReadings(latest); setMaintenanceAlerts(alerts); setData(parsedData);
\* setError(null); setLoading(false)
ProcessDataEffect(parsedData) ==
  LET r == ProcessData(parsedData, tzOffset)
  IN /\ latestReadings' = r.latest
     /\ maintenanceAlerts' = r.alerts
     /\ data' = parsedData
     /\ error' = "null"
     /\ loading' = FALSE

ParseErrorsIgnored(file) == FALSE

\* parseResult.errors.length > 0
ParseErrors(file) == file.kind = "malformed"

\* the callbacks' own assignments; the render that follows them is Render
ReaderOnloadState ==
  /\ \E i \in 1..Len(reads) :
       LET file == reads[i]
       IN /\ file.kind # "unreadable"
          /\ reads' = Remove(reads, i)
          /\ IF file.kind = "empty"
             THEN /\ error' = "Error reading file"
                  /\ loading' = FALSE
                  /\ UNCHANGED <<data, latestReadings, maintenanceAlerts, timers>>
             ELSE IF ParseErrors(file)
             THEN /\ error' = "Error parsing CSV file"
                  /\ loading' = FALSE
                  /\ UNCHANGED <<data, latestReadings, maintenanceAlerts, timers>>
             ELSE IF hasLoading
             THEN /\ timers' = Append(timers, file.rows)
                  /\ UNCHANGED <<data, latestReadings, maintenanceAlerts, error, loading>>
             ELSE /\ ProcessDataEffect(file.rows)
                  /\ UNCHANGED timers
  /\ UNCHANGED <<isDragging, files, hasLoading, tzOffset>>

ReaderOnload == ReaderOnloadState /\ Render

ReaderOnerrorState ==
  /\ \E i \in 1..Len(reads) :
       /\ reads[i].kind = "unreadable"
       /\ reads' = Remove(reads, i)
  /\ error' = "Error reading file"
  /\ loading' = FALSE
  /\ UNCHANGED <<data, latestReadings, maintenanceAlerts, isDragging, timers,
                 files, hasLoading, tzOffset>>

ReaderOnerror == ReaderOnerrorState /\ Render

\* setTimeout(() => { processData(parseResult.data) }, 1000)
TimerFiresState ==
  /\ timers # <<>>
  /\ ProcessDataEffect(Head(timers))
  /\ timers' = Tail(timers)
  /\ UNCHANGED <<isDragging, reads, files, hasLoading, tzOffset>>

TimerFires == TimerFiresState /\ Render

Next ==
  \/ HandleDragOver
  \/ HandleDragLeave
  \/ HandleDrop
  \/ ReaderOnload
  \/ ReaderOnerror
  \/ TimerFires

\* the handlers that carry a dropped file to processData
NextData ==
  \/ HandleDrop
  \/ ReaderOnload
  \/ ReaderOnerror
  \/ TimerFires

-----------------------------------------------------------------------------
(* Specifications                                                          *)

\* the drop pipeline: up to MaxDrops drops of small files
PipelineCells ==
  {[id |-> id, ts |-> ts, maint |-> "Yes", metrics |-> DefaultMetrics] :
     id \in {"EQ1", "EQ2"}, ts \in {Hour(0), Hour(1)}}

PipelineFiles ==
  FailingFiles
    \cup {File("csv", Rows(c)) : c \in [1..1 -> PipelineCells]}
    \cup {File("malformed", Rows(c)) :
            c \in [1..1 -> {x \in PipelineCells : x.id = "EQ1" /\ x.ts = Hour(1)}]}

Init ==
  /\ InitState(BOOLEAN, {0})
  /\ \E n \in 0..MaxDrops : files \in [1..n -> PipelineFiles]

Spec == Init /\ [][Next]_vars

\* the drop pipeline with its callbacks delivered: a reader that was started
\* fires onload or onerror, and a timer that was set fires.  A callback is
\* known by what it does to the state: the render adds no condition to it.
FairSpec ==
  /\ Init
  /\ [][Next]_vars
  /\ WF_state(ReaderOnloadState)
  /\ WF_state(ReaderOnerrorState)
  /\ WF_state(TimerFiresState)

\* the reducer: one drop of a file whose rows vary in equipment_id,
\* timestamp and maintenance_required
ReduceCells ==
  {[id |-> c[1], ts |-> c[2], maint |-> m, metrics |-> DefaultMetrics] :
     c \in ({"EQ1", "EQ2"} \X {TextTs, Hour(0), Hour(1)})
             \cup {<<"", Hour(0)>>, <<"EQ1", EmptyTs>>, <<"", EmptyTs>>},
     m \in {"Yes", "No"}}

InitReduce == InitState(BOOLEAN, {0}) /\ OneDrop(ReduceCells, MaxRows)

SpecReduce == InitReduce /\ [][NextData]_vars

\* the forecaster: one drop of a file whose rows vary in equipment_id,
\* timestamp and measurements, on a host in any of TimeZones
MetricsA ==
  [temperature |-> 70, vibration_level |-> 5,
   part_health_percentage |-> 40, days_until_replacement |-> 30]

MetricsB ==
  [temperature |-> 80, vibration_level |-> 3,
   part_health_percentage |-> 90, days_until_replacement |-> 300]

PredictCells ==
  {[id |-> id, ts |-> ts, maint |-> "No", metrics |-> m] :
     id \in {"EQ1", "EQ2"}, ts \in {TextTs, Hour(0), Hour(1)},
     m \in {MetricsA, MetricsB}}

InitPredict == InitState(BOOLEAN, TimeZones) /\ OneDrop(PredictCells, MaxRows)

SpecPredict == InitPredict /\ [][NextData]_vars

\* the risk scorer: one drop of a file of one row, over a grid of
\* part_health_percentage and days_until_replacement
RiskCells ==
  {[id |-> "EQ1", ts |-> Hour(0), maint |-> "No",
    metrics |-> [temperature |-> 70, vibration_level |-> 5,
                 part_health_percentage |-> h, days_until_replacement |-> d]] :
     h \in (0 - HealthMargin)..(100 + HealthMargin), d \in (0 - MaxOverdue)..MaxDays}

InitRisk == InitState(BOOLEAN, {0}) /\ OneDrop(RiskCells, 1)

SpecRisk == InitRisk /\ [][NextData]_vars

\* the chart shaper: one drop of a file whose rows vary in equipment_id,
\* timestamp (date-times and numbers) and measurements
ChartCells ==
  {[id |-> id, ts |-> ts, maint |-> "No", metrics |-> m] :
     id \in {"EQ1", "EQ2"},
     ts \in {Hour(0), Hour(1), NumberTs(2023), NumberTs(2024)},
     m \in {MetricsA, MetricsB}}

InitChart == InitState(BOOLEAN, {0}) /\ OneDrop(ChartCells, MaxRows)

SpecChart == InitChart /\ [][NextData]_vars

-----------------------------------------------------------------------------
(* The reducer and the alert filter (processData)                          *)

Parses(ts) == ts.kind = "datetime"

\* the places of the rows of equipment id that pass the guard of processData
ValidRowsOf(id) == {i \in DOMAIN data : ~IsRejected(data[i]) /\ data[i].equipment_id = id}

ValidIds == {data[i].equipment_id : i \in {k \in DOMAIN data : ~IsRejected(data[k])}}

Min(S) == CHOOSE x \in S : \A y \in S : x <= y
Max(S) == CHOOSE x \in S : \A y \in S : x >= y

\* the places of the rows of id whose timestamp parses and is the latest of id
MaxRowsOf(id) ==
  {i \in ValidRowsOf(id) :
     /\ Parses(data[i].timestamp)
     /\ \A j \in ValidRowsOf(id) :
          Parses(data[j].timestamp) => data[j].timestamp.wall <= data[i].timestamp.wall}

\* C1: for every equipment id with a row that passes the guard, the reading
\* stored in latestReadings[id] has the maximum parsed timestamp of the id's
\* readings: no reading of the id has a timestamp that parses to a later time.
LatestHasMaxTimestamp ==
  \A id \in ValidIds :
    /\ id \in DOMAIN latestReadings
    /\ \A i \in ValidRowsOf(id) :
         Parses(data[i].timestamp) =>
           /\ Parses(latestReadings[id].timestamp)
           /\ data[i].timestamp.wall <= latestReadings[id].timestamp.wall

\* C2 as claimed: of the readings of an id that share its maximum timestamp,
\* the one latest in input order is the one in latestReadings[id].
TieLaterWins ==
  \A id \in ValidIds :
    Cardinality(MaxRowsOf(id)) >= 2 =>
      /\ id \in DOMAIN latestReadings
      /\ latestReadings[id] = data[Max(MaxRowsOf(id))]

\* C2 as amended: of the readings of an id that share its maximum timestamp,
\* the one earliest in input order is the one in latestReadings[id] (an equal
\* timestamp never replaces the incumbent), unless the first reading of the id
\* has a timestamp that does not parse: then that first reading is kept.
TieEarlierKept ==
  \A id \in ValidIds :
    Cardinality(MaxRowsOf(id)) >= 2 =>
      /\ id \in DOMAIN latestReadings
      /\ latestReadings[id] =
           IF Parses(data[Min(ValidRowsOf(id))].timestamp)
           THEN data[Min(MaxRowsOf(id))]
           ELSE data[Min(ValidRowsOf(id))]

\* two readings of EQ1 share its maximum timestamp and the first is stored
TieWitness ==
  /\ Len(data) >= 2
  /\ Cardinality(MaxRowsOf("EQ1")) >= 2
  /\ "EQ1" \in DOMAIN latestReadings
  /\ latestReadings["EQ1"] = data[Min(MaxRowsOf("EQ1"))]
  /\ Parses(data[Min(ValidRowsOf("EQ1"))].timestamp)

\* C3: maintenanceAlerts is exactly the subsequence, in input order, of the
\* batch's readings (the rows with an equipment_id and a timestamp) whose
\* maintenance_required is "Yes", and is no longer than the batch.
AlertsAreFlaggedSubsequence ==
  /\ maintenanceAlerts =
       SelectSeq(data, LAMBDA r : ~IsRejected(r) /\ r.maintenance_required = "Yes")
  /\ Len(maintenanceAlerts) <= Len(data)

\* an id is alerted twice, a reading without the flag lies between the two
AlertsWitness ==
  /\ Len(data) = 3
  /\ Len(maintenanceAlerts) = 2
  /\ maintenanceAlerts[1].equipment_id = maintenanceAlerts[2].equipment_id
  /\ maintenanceAlerts[1].line = 1
  /\ maintenanceAlerts[2].line = 3

ValidRows(d) == SelectSeq(d, LAMBDA r : ~IsRejected(r))

\* C4: a row without equipment_id or timestamp contributes nothing to
\* latestReadings or maintenanceAlerts, and the other rows of the batch are
\* reduced and filtered as if it were absent.
RejectedRowsContributeNothing ==
  /\ \A id \in DOMAIN latestReadings : ~IsRejected(latestReadings[id])
  /\ \A k \in DOMAIN maintenanceAlerts : ~IsRejected(maintenanceAlerts[k])
  /\ latestReadings = ProcessData(ValidRows(data), tzOffset).latest
  /\ maintenanceAlerts = ProcessData(ValidRows(data), tzOffset).alerts

\* a rejected, flagged row comes first; a later row is stored and alerted
RejectedWitness ==
  /\ Len(data) >= 2
  /\ IsRejected(data[1])
  /\ data[1].maintenance_required = "Yes"
  /\ \E i \in 2..Len(data) :
       /\ data[i].equipment_id \in DOMAIN latestReadings
       /\ latestReadings[data[i].equipment_id] = data[i]
       /\ \E k \in DOMAIN maintenanceAlerts : maintenanceAlerts[k] = data[i]

\* C5: data holds exactly the input rows with an equipment_id and a
\* timestamp, and no equipment id shown comes from a dropped row.
DataHoldsOnlyValidRows ==
  /\ \A i \in DOMAIN data : ~IsRejected(data[i])
  /\ "" \notin UniqueEquipments(data)

-----------------------------------------------------------------------------
(* The forecaster and the risk scorer (predict.tsx)                        *)

SeriesOf(id) == EquipmentData(data, id)

\* C6: for every equipment id shown, predictFutureValues returns Horizon
\* points; the first timestamp is one hour after the timestamp of the id's
\* last reading in input order, and each next one an hour after the one before.
ForecastHourly ==
  \A id \in DOMAIN forecasts :
    /\ forecasts[id].threw = "none"
    /\ Len(forecasts[id].points) = Horizon
    /\ forecasts[id].points[1].timestamp =
         DateTime(Last(SeriesOf(id)).timestamp.wall + HourMs)
    /\ \A k \in 1..(Horizon - 1) :
         forecasts[id].points[k + 1].timestamp =
           DateTime(forecasts[id].points[k].timestamp.wall + HourMs)

\* x = a / b for a fraction x and integers a, b with b > 0
IsQuotient(x, a, b) == x.n * b = a * x.d

\* C7: over the series of an id in input order, with n its length, every
\* forecast point k has predicted = last + ((last - first) / n) * k for
\* temperature and for vibration, each from its own values, and the bounds
\* are predictedTemp + 2 and predictedTemp - 2; temperatures 70, 80 give 85
\* with bounds 87 and 83 at step 1 and 110 at step 6.
ForecastFollowsTrend ==
  \A id \in DOMAIN forecasts :
    LET series == SeriesOf(id)
        n == Len(series)
        firstRow == series[1]
        lastRow == series[n]
        points == forecasts[id].points
    IN /\ \A k \in DOMAIN points :
            /\ IsQuotient(points[k].predictedTemp,
                          lastRow.temperature * n
                            + (lastRow.temperature - firstRow.temperature) * k, n)
            /\ IsQuotient(points[k].predictedVib,
                          lastRow.vibration_level * n
                            + (lastRow.vibration_level - firstRow.vibration_level) * k, n)
            /\ points[k].upperBoundTemp = RatAdd(points[k].predictedTemp, Num(2))
            /\ points[k].lowerBoundTemp = RatSub(points[k].predictedTemp, Num(2))
            /\ points[k].equipment_id = id
       /\ (/\ points # <<>>
           /\ [i \in 1..n |-> series[i].temperature] = <<70, 80>>)
          => /\ points[1].predictedTemp = Num(85)
             /\ points[1].upperBoundTemp = Num(87)
             /\ points[1].lowerBoundTemp = Num(83)
             /\ points[Horizon].predictedTemp = Num(110)

\* temperatures 70, 80 of EQ1, the later reading first in the file, with a
\* reading of EQ2 between them: step 1 is 85 and the vibration falls
TrendWitness ==
  /\ Len(data) = 3
  /\ data[1].equipment_id = "EQ1" /\ data[3].equipment_id = "EQ1"
  /\ data[2].equipment_id = "EQ2"
  /\ data[1].temperature = 70 /\ data[3].temperature = 80
  /\ data[1].timestamp = Hour(1) /\ data[3].timestamp = Hour(0)
  /\ "EQ1" \in DOMAIN forecasts
  /\ Len(forecasts["EQ1"].points) = Horizon
  /\ forecasts["EQ1"].points[1].predictedTemp = Num(85)
  /\ forecasts["EQ1"].points[1].predictedVib = Num(2)

\* the reading calculateMaintenanceProbability scores for id
Scored(id) == Last(SeriesOf(id))

\* C8: the score is an integer in 0..100 whenever the scored reading has
\* days_until_replacement >= 0 and part_health_percentage in 0..100, and it
\* is 0 for an equipment id without readings.
ScoreInRange ==
  /\ \A id \in DOMAIN probabilities :
       (/\ Scored(id).days_until_replacement >= 0
        /\ Scored(id).part_health_percentage \in 0..100)
       => probabilities[id].probability \in 0..100
  /\ \A id \in {"EQ1", "EQ2"} \ UniqueEquipments(data) :
       CalculateMaintenanceProbability(data, id) = 0

\* a worn-out part far from its replacement date is scored, within 0..100
RangeWitness ==
  /\ "EQ1" \in DOMAIN probabilities
  /\ Scored("EQ1").part_health_percentage = 100
  /\ Scored("EQ1").days_until_replacement = MaxDays
  /\ probabilities["EQ1"].probability = 0
  /\ "EQ2" \notin UniqueEquipments(data)

\* C9: the score p is (100 - health) * 0.6 + max(0, 365 - days) * 40 / 365
\* rounded to the nearest integer, that is p <= N / 365 + 1/2 < p + 1 with
\* N = 219 * (100 - health) + 40 * max(0, 365 - days); health 40 and days 30
\* score 73; and the high-risk alert shows exactly for scores above 70.
ScoreFormula ==
  \A id \in DOMAIN probabilities :
    LET health == Scored(id).part_health_percentage
        days == Scored(id).days_until_replacement
        N == 219 * (100 - health) + 40 * (IF days > 365 THEN 0 ELSE 365 - days)
        p == probabilities[id].probability
    IN /\ 730 * p <= 2 * N + 365
       /\ 2 * N + 365 < 730 * (p + 1)
       /\ (health = 40 /\ days = 30) => p = 73
       /\ probabilities[id].highRisk <=> p >= 71

\* a reading scored exactly 70 that raises no high-risk alert
ScoreWitness ==
  /\ "EQ1" \in DOMAIN probabilities
  /\ probabilities["EQ1"].probability = 70
  /\ ~probabilities["EQ1"].highRisk
  /\ Scored("EQ1").part_health_percentage = 40

\* C10: for every equipment id the score is computed from the reading that
\* latestReadings holds for it, the id's most recent reading by timestamp.
ScoreFromLatestReading ==
  \A id \in (DOMAIN probabilities) \cap (DOMAIN latestReadings) :
    probabilities[id].probability =
      Score(latestReadings[id].part_health_percentage,
            latestReadings[id].days_until_replacement)

-----------------------------------------------------------------------------
(* The chart shaper (prepareChartData)                                     *)

\* the place in data of the first row with timestamp ts
FirstRowAt(ts) == Min({i \in DOMAIN data : data[i].timestamp = ts})

\* the ids that have a reading at timestamp ts
IdsAt(ts) == {data[i].equipment_id : i \in {k \in DOMAIN data : data[k].timestamp = ts}}

\* one point per distinct timestamp of data, each with temp and vib entries
\* for exactly the ids that have a reading at its timestamp
ChartPointsGrouped ==
  /\ {chartData[k].timestamp : k \in DOMAIN chartData}
       = {data[i].timestamp : i \in DOMAIN data}
  /\ \A a, b \in DOMAIN chartData :
       chartData[a].timestamp = chartData[b].timestamp => a = b
  /\ \A k \in DOMAIN chartData :
       /\ DOMAIN chartData[k].temp = IdsAt(chartData[k].timestamp)
       /\ DOMAIN chartData[k].vib = IdsAt(chartData[k].timestamp)
       /\ \A id \in IdsAt(chartData[k].timestamp) :
            \E i \in DOMAIN data :
              /\ data[i].equipment_id = id
              /\ data[i].timestamp = chartData[k].timestamp
              /\ chartData[k].temp[id] = data[i].temperature
              /\ chartData[k].vib[id] = data[i].vibration_level

\* C11: prepareChartData returns one point per distinct timestamp,
\* the points in the order of the first occurrence of their timestamps in the
\* input, each with entries for exactly the ids read at its timestamp.
ChartInFirstOccurrenceOrder ==
  /\ ChartPointsGrouped
  /\ \A a, b \in DOMAIN chartData :
       a < b => FirstRowAt(chartData[a].timestamp) < FirstRowAt(chartData[b].timestamp)

\* What the shaper yields: the points whose timestamp is a non-negative
\* integer come first, in ascending order of the integer, and the other
\* points follow in the order of first occurrence of their timestamps.
ChartInEntriesOrder ==
  /\ ChartPointsGrouped
  /\ \A a, b \in DOMAIN chartData :
       a < b =>
         LET ta == chartData[a].timestamp
             tb == chartData[b].timestamp
         IN IF IsIndexKey(tb) THEN IsIndexKey(ta) /\ ta.wall < tb.wall
            ELSE IsIndexKey(ta) \/ FirstRowAt(ta) < FirstRowAt(tb)

\* 2024 is read before 2023 and after a date-time: the chart shows 2023,
\* 2024 and then the date-time, which lacks the entries of EQ2
ChartWitness ==
  /\ Len(data) = 3
  /\ data[1].timestamp = Hour(1) /\ data[1].equipment_id = "EQ1"
  /\ data[2].timestamp = NumberTs(2024) /\ data[2].equipment_id = "EQ2"
  /\ data[3].timestamp = NumberTs(2023)
  /\ Len(chartData) = 3
  /\ chartData[1].timestamp = NumberTs(2023)
  /\ chartData[3].timestamp = Hour(1)
  /\ DOMAIN chartData[3].temp = {"EQ1"}

-----------------------------------------------------------------------------
(* The drop pipeline                                                       *)

\* the step is reader.onload for a file in which the parser reports errors
OnloadWithParseErrors ==
  \E i \in 1..Len(reads) : reads[i].kind = "malformed" /\ reads' = Remove(reads, i)

\* C12: when the parser reports one or more errors for a dropped file, the
\* failure is shown as the parse error message, and data, latestReadings and
\* maintenanceAlerts keep the values they had: none of the rows the parser
\* returned is applied.
ParseErrorKeepsState ==
  [][OnloadWithParseErrors =>
       /\ error' = "Error parsing CSV file"
       /\ UNCHANGED <<data, latestReadings, maintenanceAlerts>>
       /\ timers' = timers]_vars

\* a batch is shown, then a file with parse errors and rows of its own was
\* dropped and read: the message is up and the earlier batch is still shown
ParseErrorWitness ==
  /\ error = "Error parsing CSV file"
  /\ files = <<>> /\ reads = <<>> /\ timers = <<>>
  /\ Len(data) = 1 /\ data[1].timestamp = Hour(0)
  /\ latestReadings = ("EQ1" :> data[1])
  /\ maintenanceAlerts = <<data[1]>>

-----------------------------------------------------------------------------
(* Series without readings, or with one                                    *)

\* C13: asked about an equipment id that has no reading in data, the
\* forecast is the empty list and the score is 0, and neither call throws.
EmptySeriesDefaults ==
  \A id \in {"EQ1", "EQ2"} :
    Len(EquipmentData(data, id)) = 0 =>
      /\ PredictFutureValues(data, id, tzOffset).threw = "none"
      /\ PredictFutureValues(data, id, tzOffset).points = <<>>
      /\ CalculateMaintenanceProbability(data, id) = 0

\* the part of it that the scorer meets
EmptySeriesScoresZero ==
  \A id \in {"EQ1", "EQ2"} :
    Len(EquipmentData(data, id)) = 0 => CalculateMaintenanceProbability(data, id) = 0

-----------------------------------------------------------------------------
(* The reducer, pass by pass                                               *)

\* C14: the reducer is one pass from left to right.  The first reading of an
\* id that passes the guard is installed; a later one replaces the incumbent
\* only when its timestamp parses to a strictly greater time; a reading whose
\* timestamp does not parse never replaces one, so it is in latestReadings
\* only when it was the first reading of its id; the empty batch yields the
\* empty mapping.
SinglePassLatest ==
  /\ DOMAIN latestReadings = ValidIds
  /\ data = <<>> => latestReadings = NoLatest
  /\ \A id \in ValidIds :
       \E p \in ValidRowsOf(id) :
         LET first == Min(ValidRowsOf(id))
         IN /\ latestReadings[id] = data[p]
            /\ ~Parses(data[p].timestamp) => p = first
            /\ p # first =>
                 /\ Parses(data[first].timestamp)
                 /\ \A j \in ValidRowsOf(id) :
                      (j < p /\ Parses(data[j].timestamp)) =>
                        data[j].timestamp.wall < data[p].timestamp.wall
            /\ Parses(data[p].timestamp) =>
                 \A j \in ValidRowsOf(id) :
                   (j > p /\ Parses(data[j].timestamp)) =>
                     data[j].timestamp.wall <= data[p].timestamp.wall

\* EQ1 is read first with a timestamp that does not parse and twice more with
\* timestamps that do, the last one the greatest: the first reading stays;
\* or EQ2 is read at hour 0 and then at hour 1, and the second is installed
SinglePassWitness ==
  /\ Len(data) = 3
  /\ \/ /\ \A i \in 1..3 : data[i].equipment_id = "EQ1"
        /\ data[1].timestamp = TextTs
        /\ data[2].timestamp = Hour(0)
        /\ data[3].timestamp = Hour(1)
        /\ latestReadings = ("EQ1" :> data[1])
     \/ /\ data[1].equipment_id = ""
        /\ data[2].equipment_id = "EQ2" /\ data[2].timestamp = Hour(0)
        /\ data[3].equipment_id = "EQ2" /\ data[3].timestamp = Hour(1)
        /\ latestReadings = ("EQ2" :> data[3])

\* C15: for a series of exactly one reading both trends are 0, computed
\* without a division by zero, and every forecast point is flat: predictedTemp
\* is the reading's temperature, predictedVib its vibration_level, and the
\* bounds are the temperature + 2 and - 2; there are Horizon of them when the
\* reading's timestamp parses.
SingleReadingFlat ==
  \A id \in DOMAIN forecasts :
    Len(SeriesOf(id)) = 1 =>
      LET reading == SeriesOf(id)[1]
          points == forecasts[id].points
      IN /\ Trend(<<reading.temperature>>) = Num(0)
         /\ Trend(<<reading.vibration_level>>) = Num(0)
         /\ Parses(reading.timestamp) => Len(points) = Horizon
         /\ \A k \in DOMAIN points :
              /\ points[k].predictedTemp = Num(reading.temperature)
              /\ points[k].predictedVib = Num(reading.vibration_level)
              /\ points[k].upperBoundTemp = Num(reading.temperature + 2)
              /\ points[k].lowerBoundTemp = Num(reading.temperature - 2)

\* EQ2 has the one reading 80 / 3 between two readings of EQ1: its six points
\* are 80 / 3 with bounds 82 and 78
SingleReadingWitness ==
  /\ Len(data) = 3
  /\ data[1].equipment_id = "EQ1" /\ data[3].equipment_id = "EQ1"
  /\ data[2].equipment_id = "EQ2"
  /\ data[2].temperature = 80 /\ data[2].vibration_level = 3
  /\ "EQ2" \in DOMAIN forecasts
  /\ Len(forecasts["EQ2"].points) = Horizon
  /\ forecasts["EQ2"].points[Horizon].predictedTemp = Num(80)
  /\ forecasts["EQ2"].points[Horizon].predictedVib = Num(3)
  /\ forecasts["EQ2"].points[Horizon].upperBoundTemp = Num(82)
  /\ forecasts["EQ2"].points[Horizon].lowerBoundTemp = Num(78)

\* C16: in every state of the dashboard, predictFutureValues is called only
\* for equipment ids that have at least one reading in the data then shown:
\* never on an empty series.
ForecastOnlyForPresentIds ==
  /\ DOMAIN forecasts \subseteq {data[i].equipment_id : i \in DOMAIN data}
  /\ \A id \in DOMAIN forecasts :
       /\ Len(SeriesOf(id)) >= 1
       /\ forecasts[id].threw # "TypeError"

\* a batch of EQ2 alone is shown: the forecast is made for EQ2 and not for EQ1
ForecastWitness ==
  /\ Len(data) = 1
  /\ data[1].equipment_id = "EQ2"
  /\ DOMAIN forecasts = {"EQ2"}
  /\ Len(forecasts["EQ2"].points) = Horizon

\* C17: the time factor is clamped from below only.  With
\* days_until_replacement above 365 it is 0 and the score is the health term
\* alone, (100 - health) * 0.6 rounded; with negative days it is
\* (365 - days) / 365, above 1 and not capped, so that the score can pass 100:
\* health 0 and days -365 score round((0.6 + 0.8) * 100) = 140.
TimeFactorClampedBelowOnly ==
  \A id \in DOMAIN probabilities :
    LET health == Scored(id).part_health_percentage
        days == Scored(id).days_until_replacement
        p == probabilities[id].probability
    IN /\ days > 365 =>
            /\ 10 * p <= 6 * (100 - health) + 5
            /\ 6 * (100 - health) + 5 < 10 * (p + 1)
       /\ days < 0 =>
            LET N == 219 * (100 - health) + 40 * (365 - days)
            IN /\ 730 * p <= 2 * N + 365
               /\ 2 * N + 365 < 730 * (p + 1)
       /\ (health = 0 /\ days <= -5) => p > 100
       /\ (health = 0 /\ days = -365) => p = 140

\* a worn-out part a year overdue is scored 140
OverdueWitness ==
  /\ "EQ1" \in DOMAIN probabilities
  /\ Scored("EQ1").part_health_percentage = 0
  /\ Scored("EQ1").days_until_replacement = -365
  /\ probabilities["EQ1"].probability = 140
  /\ probabilities["EQ1"].highRisk

-----------------------------------------------------------------------------
(* The three collections after sequences of drops                          *)

\* C18: after any sequence of drops, latestReadings and maintenanceAlerts are
\* derived from the batch that data holds: every value of latestReadings and
\* every element of maintenanceAlerts is a reading of data, and
\* latestReadings[id].equipment_id = id.  A step changes the three together,
\* to a batch and what processData derives from it, or changes none of them.
CollectionsFromOneBatch ==
  /\ \A id \in DOMAIN latestReadings :
       /\ \E i \in DOMAIN data : data[i] = latestReadings[id]
       /\ latestReadings[id].equipment_id = id
  /\ \A k \in DOMAIN maintenanceAlerts :
       \E i \in DOMAIN data : data[i] = maintenanceAlerts[k]
  /\ latestReadings = ProcessData(data, tzOffset).latest
  /\ maintenanceAlerts = ProcessData(data, tzOffset).alerts

\* a batch with a reading of EQ1 was shown, a batch with a reading of EQ2 has
\* replaced it, and a drop that failed in the reader has come after
ReplacedWitness ==
  /\ files = <<>> /\ reads = <<>> /\ timers = <<>>
  /\ error = "Error reading file"
  /\ Len(data) = 1 /\ data[1].equipment_id = "EQ2"
  /\ latestReadings = ("EQ2" :> data[1])
  /\ maintenanceAlerts = <<data[1]>>

-----------------------------------------------------------------------------
(* The loading flag                                                        *)

\* C19: in the variant with a loading flag, every accepted drop, which sets
\* loading to true, is eventually followed by loading = false, given that the
\* reader fires onload or onerror and that the timer fires.
LoadingEventuallyCleared == loading ~> ~loading

\* a dropped file has gone through reader, parser and timer in the variant
\* with the flag: its batch is shown and loading is false again
LoadedWitness ==
  /\ hasLoading /\ ~loading
  /\ reads = <<>> /\ timers = <<>>
  /\ Len(data) = 1 /\ error = "null"


\* the reads and timers under way
InFlight == Len(reads) + Len(timers)

\* C20: in the variant with a loading flag, no further drop is accepted while
\* loading is true, so that at most one chain of read, parse and timer is
\* under way at any time, and a batch that comes to be shown is the batch of
\* that one chain, the most recently accepted drop: with nothing else under
\* way, no older batch can overwrite it later.
OneChainInFlight ==
  [][hasLoading =>
       /\ InFlight' <= 1
       /\ loading' <=> InFlight' = 1
       /\ loading => (files' = files /\ Len(reads') <= Len(reads))
       /\ <<data, latestReadings, maintenanceAlerts>>'
            # <<data, latestReadings, maintenanceAlerts>> =>
            /\ reads = <<>> /\ timers = <<data'>>
            /\ reads' = <<>> /\ timers' = <<>>]_vars

\* in the variant with the flag a batch waits for its timer while the user
\* has another file to drop: the drop target is not there
OneChainWitness ==
  /\ hasLoading /\ loading
  /\ reads = <<>> /\ Len(timers) = 1
  /\ files # <<>> /\ Head(files).kind = "csv"
  /\ data # <<>> /\ data # timers[1]


\* the step is handleDrop for a drop without a file or with a file that is
\* not text/csv
RejectedDrop ==
  /\ files # <<>>
  /\ files' = Tail(files)
  /\ Head(files).kind \in {"none", "notcsv"}

\* C21: a drop that carries no file, or a file whose type is not text/csv, is
\* rejected before any read starts: it sets an error message and isDragging
\* to false, starts no read and no timer, and leaves data, latestReadings,
\* maintenanceAlerts and loading as they were.
RejectedDropKeepsState ==
  [][RejectedDrop =>
       /\ error' = (IF Head(files).kind = "none" THEN "No file provided"
                    ELSE "Please upload a CSV file")
       /\ isDragging' = FALSE
       /\ UNCHANGED <<data, latestReadings, maintenanceAlerts, loading,
                      reads, timers>>]_vars

\* a batch is shown and the user, having dragged a file that is not csv
\* over the page, has dropped it: the message is up, the highlight is off
\* and the batch is still shown
RejectedDropWitness ==
  /\ error = "Please upload a CSV file"
  /\ ~isDragging /\ ~loading
  /\ files = <<>> /\ reads = <<>> /\ timers = <<>>
  /\ Len(data) = 1
  /\ latestReadings = (data[1].equipment_id :> data[1])
  /\ maintenanceAlerts = <<data[1]>>

====
